---------------------------- MODULE Spec2Model ----------------------------
(***************************************************************************)
(* WhisperX GUI (src/whisperx_gui/main.py): the transcription worker       *)
(* thread (TranscriptionWorker.run) and the job controller                 *)
(* (WhisperXGUI.start_transcription, cancel_transcription and the slots    *)
(* that handle the worker's queued signals).                               *)
(*                                                                         *)
(* Threads.  One control (GUI) thread and one thread per started worker.   *)
(* A worker's signals are connected to slots of the GUI object, which      *)
(* lives in another thread, so each emit posts an event to the control     *)
(* thread's event queue; the control thread handles the posted events in   *)
(* order, interleaved with the user's actions.  A modal QMessageBox runs   *)
(* a nested event loop: posted events are still handled while it is open,  *)
(* user actions on the main window are not.  QThread.wait() blocks the     *)
(* control thread without running an event loop.                           *)
(*                                                                         *)
(* An external pipeline call (whisperx.*, model.transcribe, ...) is one    *)
(* worker step that either returns or raises.                              *)
(***************************************************************************)
EXTENDS Naturals, Integers, Sequences, FiniteSets, TLC

\* Number of jobs the user may start in one session (bound of the model).
MaxJobs == 2

Workers == 1..MaxJobs

\* self.current_file / self.worker / self.result before anything was set.
NoFile == "None"
AudioFile == "audio.wav"
NoWorker == 0
NoResult == 0

VARIABLES
    pc,            \* pc[w]: position of worker w's thread in run ("none": not created)
    settings,      \* settings[w]: the settings dict handed to the worker
    connected,     \* connected[w]: the worker's signals are connected to the GUI slots
    is_cancelled,  \* is_cancelled[w]: TranscriptionWorker._is_cancelled
    emitted,       \* emitted[w]: the signals worker w has emitted, in order
    calls,         \* calls[w]: the external calls and release steps worker w has made
    cancelAt,      \* cancelAt[w]: when cancel() was first called ("never" if not)
    queue,         \* events posted to the control thread, not yet handled
    delivered,     \* delivered[w]: which terminal slot ran for worker w's job
    current_file,  \* WhisperXGUI.current_file
    worker,        \* WhisperXGUI.worker
    result,        \* WhisperXGUI.result (the id of the job it came from)
    ui,            \* the widgets' state
    mainpc,        \* control thread: "idle" or "wait" (inside worker.wait())
    dialogs,       \* stack of open modal message boxes, innermost last
    seconds,       \* the argument of format_duration / format_time, in milliseconds
    segments,      \* self.result["segments"] of the result being exported
    output,        \* what the formatter returned or wrote ("none": nothing yet)
    early_return   \* start_transcription has returned at line 945 (no file selected)

wvars == <<pc, settings, connected, is_cancelled, emitted, calls, cancelAt>>
gvars == <<current_file, worker, result, ui, mainpc, dialogs, delivered>>
fvars == <<seconds, segments, output>>
vars == <<pc, settings, connected, is_cancelled, emitted, calls, cancelAt,
          queue, delivered, current_file, worker, result, ui, mainpc, dialogs,
          seconds, segments, output, early_return>>

-----------------------------------------------------------------------------
(* Signals *)

Progress(pct, msg) == [kind |-> "progress", pct |-> pct, msg |-> msg]
Finished == [kind |-> "finished", pct |-> 100, msg |-> "result"]
Error(stage) == [kind |-> "error", pct |-> 0, msg |-> stage]

\* the number of elements of the sequence s that satisfy P
Count(s, P(_)) == Cardinality({i \in 1..Len(s) : P(s[i])})
IsFinished(e) == e.kind = "finished"
IsError(e) == e.kind = "error"
IsProgress(e) == e.kind = "progress"
IsFinal(e) == e.kind = "progress" /\ e.pct = 100

\* (variant: the event is posted at the front of the control thread's queue)
EmitAtFront(w, ev) ==
    /\ emitted' = [emitted EXCEPT ![w] = Append(@, ev)]
    /\ queue' = IF connected[w] THEN <<[w |-> w, ev |-> ev]>> \o queue ELSE queue

\* signal.emit(...): recorded, and posted to the control thread if connected.
Emit(w, ev) ==
    /\ emitted' = [emitted EXCEPT ![w] = Append(@, ev)]
    /\ queue' = IF connected[w] THEN Append(queue, [w |-> w, ev |-> ev]) ELSE queue

Goto(w, to) == pc' = [pc EXCEPT ![w] = to]

-----------------------------------------------------------------------------
(* TranscriptionWorker *)

\* When cancel() is called, relative to the worker's progress signals.
CancelMoment(w) ==
    IF Count(emitted[w], IsProgress) = 0 THEN "before_progress"
    ELSE IF Count(emitted[w], IsFinal) > 0 THEN "after_final"
    ELSE "midway"

\* cancel(): self._is_cancelled = True
cancel(w) ==
    /\ is_cancelled' = [is_cancelled EXCEPT ![w] = TRUE]
    /\ cancelAt' = [cancelAt EXCEPT ![w] = IF @ = "never" THEN CancelMoment(w) ELSE @]

\* (variant: the handler swallows the exception and emits nothing)
ExceptHandlerSwallows(w, stage) ==
    /\ Goto(w, "exit")
    /\ UNCHANGED <<emitted, queue>>

\* except Exception as e: self.error.emit(str(e)); run then returns.
ExceptHandler(w, stage) ==
    /\ Emit(w, Error(stage))
    /\ Goto(w, "exit")

\* (variant: the test of the flag is inverted)
CheckCancelledInverted(w, to) ==
    IF ~is_cancelled[w] THEN Goto(w, "exit") ELSE Goto(w, to)

\* (variant: the flag is never looked at)
CheckCancelledIgnored(w, to) == Goto(w, to)

\* if self._is_cancelled: return
CheckCancelled(w, to) ==
    IF is_cancelled[w] THEN Goto(w, "exit") ELSE Goto(w, to)

\* self.progress.emit(pct, msg) at position `from`, continuing at `to`.
EmitProgress(w, from, pct, msg, to) ==
    /\ pc[w] = from
    /\ Emit(w, Progress(pct, msg))
    /\ Goto(w, to)
    /\ UNCHANGED <<settings, connected, is_cancelled, calls, cancelAt>>
    /\ UNCHANGED gvars
    /\ UNCHANGED <<fvars, early_return>>

\* a cancellation checkpoint at position `from`.
Checkpoint(w, from, to) ==
    /\ pc[w] = from
    /\ CheckCancelled(w, to)
    /\ UNCHANGED <<settings, connected, is_cancelled, emitted, calls, cancelAt, queue>>
    /\ UNCHANGED gvars
    /\ UNCHANGED <<fvars, early_return>>

\* an entry of calls[w]: a call that returned, a call that raised
Returned(name) == [name |-> name, ok |-> TRUE]
Raised(name) == [name |-> name, ok |-> FALSE]

\* The statements of run from an external call (or the imports, or the
\* release of the main model) at position `from` up to and including the
\* next checkpoint or emit after it.  The call `name` returns, the progress
\* signal is emitted and the release steps `after` that follow it are made;
\* or the call raises into the except handler.  Apart from the emit these
\* statements touch nothing the control thread reads or writes, so they
\* form one step; a call that is "in flight" is a worker waiting at `from`.
CallThenEmit(w, from, name, mayRaise, after, pct, msg, to) ==
    /\ pc[w] = from
    /\ \/ /\ calls' = [calls EXCEPT ![w] = Append(@, Returned(name)) \o after]
          /\ Emit(w, Progress(pct, msg))
          /\ Goto(w, to)
       \/ /\ mayRaise
          /\ calls' = [calls EXCEPT ![w] = Append(@, Raised(name))]
          /\ ExceptHandler(w, name)
    /\ UNCHANGED <<settings, connected, is_cancelled, cancelAt>>
    /\ UNCHANGED gvars
    /\ UNCHANGED <<fvars, early_return>>

\* (variant: the align setting is not consulted)
AfterTranscribeAlways(w) == "emit55"

\* where run continues after the checkpoint that follows transcription
AfterTranscribe(w) == IF settings[w].align THEN "emit55" ELSE "emit75skip"

\* (variant: run goes straight to finished.emit, without the cleanup and 100%)
AfterAlignSkipsCleanup(w) == "emit_finished"

\* (variant: the diarization branch is taken whatever the settings)
AfterAlignAlwaysDiarize(w) == "emit80"

\* where run continues after the checkpoint that follows alignment: the
\* diarization branch, nothing at all when diarization is requested without
\* a token, or the "skipped" note.
AfterAlign(w) ==
    IF settings[w].diarize
    THEN IF settings[w].hf_token THEN "emit80" ELSE "emit98"
    ELSE "emit95skip"

\* (variant: the result is withheld once the worker has been cancelled)
EmitFinishedUnlessCancelled(w) ==
    /\ pc[w] = "emit_finished"
    /\ IF is_cancelled[w] THEN UNCHANGED <<emitted, queue>> ELSE Emit(w, Finished)
    /\ Goto(w, "exit")
    /\ UNCHANGED <<settings, connected, is_cancelled, calls, cancelAt>>
    /\ UNCHANGED gvars
    /\ UNCHANGED <<fvars, early_return>>

\* self.finished.emit(result): the last statement of the try block.
EmitFinished(w) ==
    /\ pc[w] = "emit_finished"
    /\ Emit(w, Finished)
    /\ Goto(w, "exit")
    /\ UNCHANGED <<settings, connected, is_cancelled, calls, cancelAt>>
    /\ UNCHANGED gvars
    /\ UNCHANGED <<fvars, early_return>>

\* The worker object is still referenced: by self.worker, or, for a worker
\* that was constructed directly, by whoever constructed it.
Referenced(w) == worker = w \/ ~connected[w]

\* The fields of a worker object that no longer exists.
FreedFields ==
    [settings |-> [align |-> TRUE, diarize |-> FALSE, hf_token |-> FALSE],
     connected |-> FALSE, is_cancelled |-> FALSE, emitted |-> <<>>,
     calls |-> <<>>, cancelAt |-> "never"]

\* run returns and the thread stops running; a worker object that
\* self.worker no longer refers to is destroyed with it.
ThreadExit(w) ==
    /\ pc[w] = "exit"
    /\ IF Referenced(w)
       THEN /\ Goto(w, "done")
            /\ UNCHANGED <<settings, connected, is_cancelled, emitted, calls, cancelAt>>
       ELSE /\ Goto(w, "freed")
            /\ settings' = [settings EXCEPT ![w] = FreedFields.settings]
            /\ connected' = [connected EXCEPT ![w] = FreedFields.connected]
            /\ is_cancelled' = [is_cancelled EXCEPT ![w] = FreedFields.is_cancelled]
            /\ emitted' = [emitted EXCEPT ![w] = FreedFields.emitted]
            /\ calls' = [calls EXCEPT ![w] = FreedFields.calls]
            /\ cancelAt' = [cancelAt EXCEPT ![w] = FreedFields.cancelAt]
    /\ UNCHANGED queue
    /\ UNCHANGED gvars
    /\ UNCHANGED <<fvars, early_return>>

\* TranscriptionWorker.run (lines 52-192).
run(w) ==
    \/ CallThenEmit(w, "import", "import", TRUE, <<>>,
                    5, "Chargement du modele", "chk71")
    \/ Checkpoint(w, "chk71", "load_model")
    \/ CallThenEmit(w, "load_model", "load_model", TRUE, <<>>,
                    15, "Modele charge", "chk83")
    \/ Checkpoint(w, "chk83", "load_audio")
    \/ CallThenEmit(w, "load_audio", "load_audio", TRUE, <<>>,
                    20, "Demarrage transcription", "chk95")
    \/ Checkpoint(w, "chk95", "emit25")
    \/ EmitProgress(w, "emit25", 25, "Transcription", "transcribe")
    \/ CallThenEmit(w, "transcribe", "transcribe", TRUE, <<>>,
                    50, "Transcription terminee", "chk117")
    \/ Checkpoint(w, "chk117", AfterTranscribe(w))
    \/ EmitProgress(w, "emit55", 55, "Chargement du modele d'alignement",
                    "load_align_model")
    \/ CallThenEmit(w, "load_align_model", "load_align_model", TRUE, <<>>,
                    65, "Alignement des mots", "align")
    \/ CallThenEmit(w, "align", "align", TRUE, <<Returned("release_align_model")>>,
                    75, "Alignement termine", "chk150")
    \/ EmitProgress(w, "emit75skip", 75, "Alignement ignore", "chk150")
    \/ Checkpoint(w, "chk150", AfterAlign(w))
    \/ EmitProgress(w, "emit80", 80, "Chargement du modele de diarisation",
                    "DiarizationPipeline")
    \/ CallThenEmit(w, "DiarizationPipeline", "DiarizationPipeline", TRUE, <<>>,
                    85, "Identification des locuteurs", "diarize")
    \/ CallThenEmit(w, "diarize", "diarize", TRUE, <<>>,
                    95, "Attribution des locuteurs", "assign_word_speakers")
    \/ CallThenEmit(w, "assign_word_speakers", "assign_word_speakers", TRUE, <<>>,
                    98, "Nettoyage de la memoire", "del_model")
    \/ EmitProgress(w, "emit95skip", 95, "Diarisation ignoree", "emit98")
    \/ EmitProgress(w, "emit98", 98, "Nettoyage de la memoire", "del_model")
    \/ CallThenEmit(w, "del_model", "release_model", FALSE, <<>>,
                    100, "Termine", "emit_finished")
    \/ EmitFinished(w)
    \/ ThreadExit(w)

\* isRunning(): started and not yet stopped.
Running(w) == pc[w] \notin {"none", "done", "freed"}

-----------------------------------------------------------------------------
(* WhisperXGUI *)

\* reset_ui_after_transcription
reset_ui_after_transcription(u) ==
    [u EXCEPT !.transcribe_enabled = TRUE,
              !.transcribe_visible = TRUE,
              !.cancel_visible = FALSE,
              !.progress_visible = FALSE,
              !.progress_label = "En attente..."]

\* (variant: the token field is never read)
get_settings_without_token(al, di, tok) ==
    [align |-> al, diarize |-> di, hf_token |-> FALSE]

\* get_settings: the token is read only when diarization is checked.
get_settings(al, di, tok) ==
    [align |-> al, diarize |-> di, hf_token |-> IF di THEN tok ELSE FALSE]

\* the control thread is in its event loop and no modal box is open
AtMainWindow == mainpc = "idle" /\ dialogs = <<>>

\* on_file_selected (a drop on the drop zone, or the file dialog)
on_file_selected ==
    /\ AtMainWindow
    /\ current_file' = AudioFile
    /\ ui' = [ui EXCEPT !.transcribe_enabled = TRUE, !.status = "Pret"]
    /\ UNCHANGED <<worker, result, mainpc, dialogs, delivered, queue>>
    /\ UNCHANGED wvars
    /\ UNCHANGED <<fvars, early_return>>

Unused == {w \in Workers : pc[w] = "none"}
NextWorker == CHOOSE w \in Unused : \A v \in Unused : w <= v

\* (variant: the token field is not validated)
TokenMissingUnchecked(di, tok) == FALSE

\* the validation of the diarization settings (line 948)

TokenMissing(di, tok) == di /\ ~tok

\* start_transcription, with the state of the three widgets it reads:
\* align_check, diarize_check, and whether hf_token_input is non-empty.
start_transcription(al, di, tok) ==
    IF current_file = NoFile
    THEN /\ early_return' = TRUE
         /\ UNCHANGED <<wvars, gvars, queue, fvars>>
    ELSE IF TokenMissing(di, tok)
    THEN /\ dialogs' = Append(dialogs, [kind |-> "warning", w |-> NoWorker])
         /\ UNCHANGED <<current_file, worker, result, ui, mainpc, delivered, queue>>
         /\ UNCHANGED wvars
         /\ UNCHANGED <<fvars, early_return>>
    ELSE /\ Unused # {}
         /\ LET w == NextWorker
                \* rebinding self.worker drops the last reference to the previous
                \* worker object; it is destroyed unless its thread still runs
                gone == {v \in Workers : v = worker /\ pc[v] = "done"}
                Rebind(f, new, freed) ==
                    [v \in Workers |-> IF v = w THEN new
                                       ELSE IF v \in gone THEN freed ELSE f[v]]
            IN
            /\ ui' = [ui EXCEPT !.transcribe_enabled = FALSE,
                                !.transcribe_visible = FALSE,
                                !.cancel_visible = TRUE,
                                !.progress_visible = TRUE,
                                !.progress_bar = 0,
                                !.progress_label = "Demarrage...",
                                !.results = NoResult,
                                !.status = "Transcription en cours..."]
            /\ settings' = Rebind(settings, get_settings(al, di, tok), FreedFields.settings)
            /\ connected' = Rebind(connected, TRUE, FreedFields.connected)
            /\ is_cancelled' = Rebind(is_cancelled, FALSE, FreedFields.is_cancelled)
            /\ emitted' = Rebind(emitted, <<>>, FreedFields.emitted)
            /\ calls' = Rebind(calls, <<>>, FreedFields.calls)
            /\ cancelAt' = Rebind(cancelAt, "never", FreedFields.cancelAt)
            /\ worker' = w
            /\ pc' = Rebind(pc, "import", "freed")
         /\ UNCHANGED <<current_file, result, mainpc, dialogs, delivered, queue>>
         /\ UNCHANGED <<fvars, early_return>>

\* a click on transcribe_btn, which must be visible and enabled
ClickTranscribe ==
    /\ AtMainWindow
    /\ ui.transcribe_enabled /\ ui.transcribe_visible
    /\ \E al \in BOOLEAN, di \in BOOLEAN, tok \in BOOLEAN :
           start_transcription(al, di, tok)

\* cancel_transcription up to worker.wait(): the flag is set and the control
\* thread blocks.
cancel_transcription_begin ==
    /\ AtMainWindow
    /\ ui.cancel_visible
    /\ IF worker # NoWorker
       THEN cancel(worker)
       ELSE UNCHANGED <<is_cancelled, cancelAt>>
    /\ mainpc' = "wait"
    /\ UNCHANGED <<current_file, worker, result, ui, dialogs, delivered, queue>>
    /\ UNCHANGED <<pc, settings, connected, emitted, calls>>
    /\ UNCHANGED <<fvars, early_return>>

\* (variant: wait() returns at once, like a wait with a zero timeout)
WaitReturnsEarly == TRUE

\* worker.wait() returns once the thread has stopped
WaitReturns == worker = NoWorker \/ ~Running(worker)

\* cancel_transcription after worker.wait()
cancel_transcription_end ==
    /\ mainpc = "wait"
    /\ WaitReturns
    /\ ui' = [reset_ui_after_transcription(ui) EXCEPT !.status = "Transcription annulee"]
    /\ mainpc' = "idle"
    /\ UNCHANGED <<current_file, worker, result, dialogs, delivered, queue>>
    /\ UNCHANGED wvars
    /\ UNCHANGED <<fvars, early_return>>

\* the control thread's event loop may deliver a posted event
CanDeliver == mainpc = "idle" /\ queue # <<>>

\* on_progress
on_progress ==
    /\ CanDeliver
    /\ Head(queue).ev.kind = "progress"
    /\ queue' = Tail(queue)
    /\ ui' = [ui EXCEPT !.progress_bar = Head(queue).ev.pct,
                        !.progress_label = Head(queue).ev.msg,
                        !.status = Head(queue).ev.msg]
    /\ UNCHANGED <<current_file, worker, result, mainpc, dialogs, delivered>>
    /\ UNCHANGED wvars
    /\ UNCHANGED <<fvars, early_return>>

\* (variant: the slot stores nothing)
StoredResultNone(w) == NoResult

\* what on_transcription_complete stores in self.result
StoredResult(w) == w

\* on_transcription_complete
on_transcription_complete ==
    /\ CanDeliver
    /\ Head(queue).ev.kind = "finished"
    /\ queue' = Tail(queue)
    /\ LET w == Head(queue).w IN
       /\ result' = StoredResult(w)
       /\ delivered' = [delivered EXCEPT ![w] = "complete"]
       /\ ui' = [reset_ui_after_transcription(
                    [ui EXCEPT !.results = w, !.export_enabled = TRUE])
                  EXCEPT !.status = "Transcription terminee !"]
    /\ UNCHANGED <<current_file, worker, mainpc, dialogs>>
    /\ UNCHANGED wvars
    /\ UNCHANGED <<fvars, early_return>>

\* on_transcription_error up to QMessageBox.critical, which opens a modal box
on_transcription_error ==
    /\ CanDeliver
    /\ Head(queue).ev.kind = "error"
    /\ queue' = Tail(queue)
    /\ LET w == Head(queue).w IN
       /\ delivered' = [delivered EXCEPT ![w] = "error"]
       /\ dialogs' = Append(dialogs, [kind |-> "critical", w |-> w])
    /\ UNCHANGED <<current_file, worker, result, ui, mainpc>>
    /\ UNCHANGED wvars
    /\ UNCHANGED <<fvars, early_return>>

\* the user closes the innermost message box and its handler continues:
\* start_transcription returns; on_transcription_error resets the UI.
DismissDialog ==
    /\ mainpc = "idle"
    /\ dialogs # <<>>
    /\ LET top == dialogs[Len(dialogs)] IN
       ui' = IF top.kind = "critical"
             THEN [reset_ui_after_transcription(ui) EXCEPT !.status = "Erreur"]
             ELSE ui
    /\ dialogs' = SubSeq(dialogs, 1, Len(dialogs) - 1)
    /\ UNCHANGED <<current_file, worker, result, mainpc, delivered, queue>>
    /\ UNCHANGED wvars
    /\ UNCHANGED <<fvars, early_return>>

\* the formats of the three export buttons
Formats == {"txt", "srt", "json"}

\* export_result(format) up to QFileDialog.getSaveFileName, a modal dialog;
\* the export buttons are enabled by on_transcription_complete.
export_result_begin(format) ==
    IF result = NoResult
    THEN UNCHANGED vars
    ELSE /\ dialogs' = Append(dialogs, [kind |-> "save", w |-> NoWorker, format |-> format])
         /\ UNCHANGED <<current_file, worker, result, ui, mainpc, delivered, queue>>
         /\ UNCHANGED wvars
         /\ UNCHANGED <<fvars, early_return>>

\* a click on one of the export buttons
ClickExport ==
    /\ AtMainWindow
    /\ ui.export_enabled
    /\ \E format \in Formats : export_result_begin(format)

\* (variant: a failed export discards the held result)
export_result_write_discards ==
    /\ mainpc = "idle"
    /\ dialogs # <<>>
    /\ dialogs[Len(dialogs)].kind = "save"
    /\ LET rest == SubSeq(dialogs, 1, Len(dialogs) - 1) IN
       \/ /\ ui' = [ui EXCEPT !.status = "Exporte"]
          /\ dialogs' = Append(rest, [kind |-> "information", w |-> NoWorker])
          /\ UNCHANGED result
       \/ /\ dialogs' = Append(rest, [kind |-> "export_error", w |-> NoWorker])
          /\ result' = NoResult
          /\ UNCHANGED ui
    /\ UNCHANGED <<current_file, worker, mainpc, delivered, queue>>
    /\ UNCHANGED wvars
    /\ UNCHANGED <<fvars, early_return>>

\* export_result once the user has chosen a path in the file dialog: the
\* file is written, the status bar says so and an information box opens; or
\* the write (or the building of the content) raises and a critical box
\* opens.  (Closing the file dialog without a path is DismissDialog.)
export_result_write ==
    /\ mainpc = "idle"
    /\ dialogs # <<>>
    /\ dialogs[Len(dialogs)].kind = "save"
    /\ LET rest == SubSeq(dialogs, 1, Len(dialogs) - 1) IN
       \/ /\ ui' = [ui EXCEPT !.status = "Exporte"]
          /\ dialogs' = Append(rest, [kind |-> "information", w |-> NoWorker])
       \/ /\ dialogs' = Append(rest, [kind |-> "export_error", w |-> NoWorker])
          /\ UNCHANGED ui
    /\ UNCHANGED <<current_file, worker, result, mainpc, delivered, queue>>
    /\ UNCHANGED wvars
    /\ UNCHANGED <<fvars, early_return>>

-----------------------------------------------------------------------------
(* Formatting *)

(***************************************************************************)
(* A time is held as a whole number of milliseconds ms; the float the code *)
(* works on is the IEEE-754 double nearest to ms/1000.  Floor division,    *)
(* the remainder, int() and the subtraction of the integer part are exact  *)
(* on doubles, and for the times considered the double nearest to ms/1000  *)
(* lies strictly between the same two whole seconds as ms/1000 (or is that *)
(* whole second), so these give the same integers as on ms.  The product   *)
(* by 1000 in format_time is rounded to a double, which is modelled below. *)
(***************************************************************************)

RECURSIVE Pow2(_)
Pow2(n) == IF n = 0 THEN 1 ELSE 2 * Pow2(n - 1)

RECURSIVE Log2Floor(_)
Log2Floor(n) == IF n < 2 THEN 0 ELSE 1 + Log2Floor(n \div 2)

RECURSIVE Pow2Mod1000(_)
Pow2Mod1000(n) == IF n = 0 THEN 1 ELSE (2 * Pow2Mod1000(n - 1)) % 1000

RECURSIVE ShiftsToOne(_)
ShiftsToOne(ms) == IF ms >= 1000 THEN 0 ELSE 1 + ShiftsToOne(2 * ms)

\* the binary exponent of ms/1000 (ms > 0): floor(log2(ms/1000))
Exponent(ms) ==
    IF ms >= 1000 THEN Log2Floor(ms \div 1000) ELSE 0 - ShiftsToOne(ms)

\* The double nearest to ms/1000 is a multiple of u = 2^-(52 - Exponent(ms)).
\* RoundRem is 1000 times the remainder of ms/1000 over u, in units of u:
\* 0 when ms/1000 is a double, below 500 when the nearest double is the one
\* below ms/1000, above 500 when it is the one above (500 cannot occur).
RoundRem(ms) == ((ms % 1000) * Pow2Mod1000(52 - Exponent(ms))) % 1000

IsPow2(n) == n = Pow2(Log2Floor(n))

\* (seconds - int(seconds)) * 1000 evaluates to a double that is at least
\* the whole number m = ms % 1000.  The difference is exact, so the product
\* is exactly m when ms/1000 is a double, and just above m when the double
\* is above ms/1000.  When the double is below ms/1000 the exact product is
\* m - RoundRem * u; it is rounded to m only if it is no further from m than
\* half the distance from m to the double below m, i.e. if
\* RoundRem <= 2^t with t as below; otherwise the result is below m.
ProductReachesWhole(ms) ==
    LET m == ms % 1000
        r == RoundRem(ms)
        t == Log2Floor(m) - Exponent(ms) - (IF IsPow2(m) THEN 2 ELSE 1)
    IN  r = 0 \/ r > 500 \/ (t >= 0 /\ (t >= 9 \/ r <= Pow2(t)))

\* f"{n:02d}" and f"{n:03d}" for n >= 0
Pad2(n) == IF n < 10 THEN "0" \o ToString(n) ELSE ToString(n)
Pad3(n) == IF n < 10 THEN "00" \o ToString(n)
           ELSE IF n < 100 THEN "0" \o ToString(n) ELSE ToString(n)

\* (variant: the minutes field is always shown)
format_duration_always_minutes(ms) ==
    ToString(ms \div 60000) \o "m " \o ToString((ms % 60000) \div 1000) \o "s"

\* TranscriptionWorker.format_duration
format_duration(ms) ==
    LET minutes == ms \div 60000
        secs == (ms % 60000) \div 1000
    IN  IF minutes > 0
        THEN ToString(minutes) \o "m " \o ToString(secs) \o "s"
        ELSE ToString(secs) \o "s"

\* WhisperXGUI.format_time
format_time(ms) ==
    LET hours == ms \div 3600000
        minutes == (ms % 3600000) \div 60000
        secs == (ms % 60000) \div 1000
        millis == IF ms % 1000 = 0 \/ ProductReachesWhole(ms)
                  THEN ms % 1000 ELSE (ms % 1000) - 1
    IN  Pad2(hours) \o ":" \o Pad2(minutes) \o ":" \o Pad2(secs) \o "," \o Pad3(millis)

\* A text is a sequence of characters.  str.strip(): the text without its
\* leading and trailing blanks.
RECURSIVE LStrip(_)
LStrip(t) == IF t # <<>> /\ Head(t) = " " THEN LStrip(Tail(t)) ELSE t
RECURSIVE RStrip(_)
RStrip(t) == IF t # <<>> /\ t[Len(t)] = " " THEN RStrip(SubSeq(t, 1, Len(t) - 1)) ELSE t
Strip(t) == RStrip(LStrip(t))

\* the string made of the characters of t
RECURSIVE Str(_)
Str(t) == IF t = <<>> THEN "" ELSE Head(t) \o Str(Tail(t))

\* the srt branch of export_result: srt_content after the segments from the
\* i-th on have been appended (enumerate counts from 1)
RECURSIVE SrtFrom(_, _)
SrtFrom(segs, i) ==
    IF i > Len(segs) THEN ""
    ELSE ToString(i) \o "\n" \o format_time(segs[i].start) \o " --> "
         \o format_time(segs[i].end) \o "\n" \o Str(Strip(segs[i].text)) \o "\n\n"
         \o SrtFrom(segs, i + 1)

\* a call of format_duration(seconds)
call_format_duration ==
    /\ output = "none"
    /\ output' = format_duration(seconds)
    /\ UNCHANGED <<seconds, segments, early_return>>
    /\ UNCHANGED wvars
    /\ UNCHANGED <<current_file, worker, result, ui, mainpc, dialogs, delivered, queue>>

\* export_result("srt") with a path chosen: what is written to the file
export_srt ==
    /\ output = "none"
    /\ output' = SrtFrom(segments, 1)
    /\ UNCHANGED <<seconds, segments, early_return>>
    /\ UNCHANGED wvars
    /\ UNCHANGED <<current_file, worker, result, ui, mainpc, dialogs, delivered, queue>>

-----------------------------------------------------------------------------
(* Specifications *)

InitWorkers ==
    /\ is_cancelled = [w \in Workers |-> FALSE]
    /\ emitted = [w \in Workers |-> <<>>]
    /\ calls = [w \in Workers |-> <<>>]
    /\ cancelAt = [w \in Workers |-> "never"]
    /\ queue = <<>>
    /\ delivered = [w \in Workers |-> "none"]

InitGUI ==
    /\ current_file = NoFile
    /\ worker = NoWorker
    /\ result = NoResult
    /\ ui = [transcribe_enabled |-> FALSE, transcribe_visible |-> TRUE,
             cancel_visible |-> FALSE, progress_visible |-> FALSE,
             progress_bar |-> -1, progress_label |-> "En attente...",
             status |-> "", export_enabled |-> FALSE, results |-> NoResult]
    /\ mainpc = "idle"
    /\ dialogs = <<>>

\* no formatter has been called
InitFormat ==
    /\ seconds = 0
    /\ segments = <<>>
    /\ output = "none"
    /\ early_return = FALSE

\* The application after WhisperXGUI.__init__: no worker exists yet.
Init ==
    /\ InitWorkers
    /\ InitGUI
    /\ InitFormat
    /\ pc = [w \in Workers |-> "none"]
    /\ settings = [w \in Workers |-> FreedFields.settings]
    /\ connected = [w \in Workers |-> FALSE]

Next ==
    \/ on_file_selected
    \/ ClickTranscribe
    \/ cancel_transcription_begin
    \/ cancel_transcription_end
    \/ on_progress
    \/ on_transcription_complete
    \/ on_transcription_error
    \/ DismissDialog
    \/ \E w \in Workers : run(w)

Spec == Init /\ [][Next]_vars

\* A TranscriptionWorker constructed directly with any settings dict and
\* started, with cancel() callable at any time; no GUI slot is connected.
SettingsDicts == [align : BOOLEAN, diarize : BOOLEAN, hf_token : BOOLEAN]

InitWorker ==
    /\ InitWorkers
    /\ InitGUI
    /\ InitFormat
    /\ pc = [w \in Workers |-> IF w = 1 THEN "import" ELSE "none"]
    /\ \E s \in SettingsDicts : settings = [w \in Workers |-> s]
    /\ connected = [w \in Workers |-> FALSE]

CallCancel(w) ==
    /\ pc[w] # "none"
    /\ ~is_cancelled[w]
    /\ cancel(w)
    /\ UNCHANGED <<pc, settings, connected, emitted, calls, queue>>
    /\ UNCHANGED gvars
    /\ UNCHANGED <<fvars, early_return>>

NextWorkerOnly ==
    \/ run(1)
    \/ CallCancel(1)

WorkerSpec == InitWorker /\ [][NextWorkerOnly]_vars

\* Number of jobs the user starts in a session of SessionSpec.
MaxStarts == 1

\* the number of workers created so far
Started == Cardinality({w \in Workers : pc[w] # "none"})

\* a click on transcribe_btn that creates a worker only while fewer than
\* MaxStarts have been created (a click that is refused is always possible)
ClickTranscribeInSession ==
    /\ ClickTranscribe
    /\ (Started < MaxStarts \/ UNCHANGED pc)

\* The application with its export buttons, in a session of at most
\* MaxStarts jobs.
NextSession ==
    \/ on_file_selected
    \/ ClickTranscribeInSession
    \/ cancel_transcription_begin
    \/ cancel_transcription_end
    \/ on_progress
    \/ on_transcription_complete
    \/ on_transcription_error
    \/ DismissDialog
    \/ ClickExport
    \/ export_result_write
    \/ \E w \in Workers : run(w)

SessionSpec == Init /\ [][NextSession]_vars

\* the GUI and the workers as constructed, no job started
InitIdle ==
    /\ InitWorkers
    /\ InitGUI
    /\ pc = [w \in Workers |-> "none"]
    /\ settings = [w \in Workers |-> FreedFields.settings]
    /\ connected = [w \in Workers |-> FALSE]

\* Durations up to MaxTenths tenths of a second.
MaxTenths == 1300
Durations == {100 * n : n \in 0..MaxTenths}

\* format_duration applied to any duration
InitDuration ==
    /\ InitIdle
    /\ seconds \in Durations
    /\ segments = <<>>
    /\ output = "none"
    /\ early_return = FALSE

DurationSpec == InitDuration /\ [][call_format_duration]_vars

\* Results of up to MaxSegments segments, with times and texts from small sets.
MaxSegments == 2
Times == {0, 1001, 59999, 3725125}
Texts == {<<>>, <<" ", "a", " ", "b", " ">>}
Segment == [start : Times, end : Times, text : Texts]
SegmentLists == UNION {[1..n -> Segment] : n \in 0..MaxSegments}

\* the subtitle export applied to any result
InitSrt ==
    /\ InitIdle
    /\ seconds = 0
    /\ segments \in SegmentLists
    /\ output = "none"
    /\ early_return = FALSE

SrtSpec == InitSrt /\ [][export_srt]_vars

\* start_transcription invoked while no file is selected.  The transcribe
\* button is disabled until a file is selected, so this call does not come
\* from a click on it.
call_start_transcription ==
    /\ AtMainWindow
    /\ current_file = NoFile
    /\ \E al \in BOOLEAN, di \in BOOLEAN, tok \in BOOLEAN :
           start_transcription(al, di, tok)

NextStart ==
    \/ NextSession
    \/ call_start_transcription

StartSpec == Init /\ [][NextStart]_vars

\* SessionSpec with the scheduling the platform provides: a worker thread
\* that can take a step eventually takes it (the thread is scheduled, and
\* the external call it is in eventually returns or raises), and the control
\* thread leaves wait() once the thread it waits for has stopped.  Nothing
\* is assumed about what the user does.
FairSessionSpec ==
    /\ SessionSpec
    /\ \A w \in Workers : WF_vars(run(w))
    /\ WF_vars(cancel_transcription_end)

-----------------------------------------------------------------------------
(* Properties *)

\* the worker object exists
Live(w) == pc[w] \notin {"none", "freed"}
\* run has reached a return (its last emit, a cancelled checkpoint, the handler)
Exited(w) == pc[w] \in {"exit", "done"}

NFinished(w) == Count(emitted[w], IsFinished)
NError(w) == Count(emitted[w], IsError)
Called(w, name) == \E i \in 1..Len(calls[w]) : calls[w][i].name = name
HasRaised(w) == \E i \in 1..Len(calls[w]) : ~calls[w][i].ok
LastEmitted(w) == emitted[w][Len(emitted[w])]

\* C1: every run ends in exactly one of three ways: one `finished` and no
\* `error`, one `error` and no `finished`, or neither; and it ends with
\* neither only if cancel() was called on the worker.  No run ever emits
\* more than one terminal signal.
C1_ThreeOutcomes ==
    \A w \in Workers :
        /\ NFinished(w) + NError(w) <= 1
        /\ Exited(w) =>
              \/ NFinished(w) = 1 /\ NError(w) = 0
              \/ NFinished(w) = 0 /\ NError(w) = 1
              \/ NFinished(w) = 0 /\ NError(w) = 0 /\ is_cancelled[w]

\* a run that stopped silently after it had emitted progress
C1_Witness ==
    \E w \in Workers :
        /\ pc[w] = "done"
        /\ NFinished(w) + NError(w) = 0
        /\ Len(emitted[w]) > 0

\* The positions at which the worker is about to enter a state after Idle,
\* taking the progress signal that announces a state as preceding it:
\* LoadingModel, LoadingAudio, Transcribing, Aligning, Diarizing, CleaningUp.
StateEntry == {"chk71", "chk83", "chk95", "chk117", "chk150", "del_model"}

\* C2 (as claimed): a worker whose cancellation flag is set when it is about
\* to enter a state after Idle stops there: its next step is the return from
\* run, and it emits nothing.
C2_StopsAtEveryEntry ==
    [][\A w \in Workers :
         (is_cancelled[w] /\ pc[w] \in StateEntry /\ pc'[w] # pc[w])
            => (pc'[w] = "exit" /\ emitted'[w] = emitted[w])]_vars

\* C3 (as claimed): a worker on which cancel() was called before it emitted
\* any progress signal emits neither `finished` nor `error`.
C3_NoTerminalAfterEarlyCancel ==
    \A w \in Workers :
        cancelAt[w] = "before_progress" => NFinished(w) + NError(w) = 0

\* the `finished` event of worker w is posted and not yet handled
FinishedPending(w) ==
    \E i \in 1..Len(queue) : queue[i].w = w /\ queue[i].ev.kind = "finished"

\* C4: a cancellation requested after the worker emitted the final progress
\* signal (100%) does not suppress the completion: once run has returned the
\* `finished` event is posted or on_transcription_complete has run for that
\* job, cancel_transcription removes nothing from the event queue, and the
\* slot stores that job's result.
C4_CompletionNotSuppressed ==
    /\ [](\A w \in Workers :
            (cancelAt[w] = "after_final" /\ Exited(w))
               => (FinishedPending(w) \/ delivered[w] = "complete"))
    /\ [][/\ (mainpc = "wait" \/ mainpc' = "wait") =>
                \A i \in 1..Len(queue) : i <= Len(queue') /\ queue'[i] = queue[i]
          /\ \A w \in Workers :
                (delivered[w] # "complete" /\ delivered'[w] = "complete")
                   => result' = w]_vars

\* the job was cancelled after its 100%, and its completion was handled
C4_Witness ==
    \E w \in Workers :
        /\ cancelAt[w] = "after_final"
        /\ delivered[w] = "complete"
        /\ result = w
        /\ mainpc = "idle"

\* C5 (as claimed): at most one worker thread is running at any time.
C5_AtMostOneRunning ==
    Cardinality({w \in Workers : Running(w)}) <= 1

\* the number of times the worker released the main model
NReleases(w) ==
    Cardinality({i \in 1..Len(calls[w]) : calls[w][i].name = "release_model"})
\* the main model was loaded
ModelLoaded(w) ==
    \E i \in 1..Len(calls[w]) : calls[w][i] = Returned("load_model")

\* C6 (as claimed): when run returns, the main model has been released by
\* the cleanup step exactly once if it was loaded, and no release step was
\* made if it was not.
C6_ReleasedOnEveryExit ==
    \A w \in Workers :
        Exited(w) => NReleases(w) = (IF ModelLoaded(w) THEN 1 ELSE 0)

\* C7: a failure raised by an external call is turned into exactly one
\* `error` signal, which is the last signal of the run; the failing call is
\* the last call the worker makes, no `finished` is emitted, and run returns
\* through its handler.
C7_FailureContained ==
    \A w \in Workers :
        HasRaised(w) =>
            /\ Exited(w)
            /\ NError(w) = 1
            /\ NFinished(w) = 0
            /\ LastEmitted(w).kind = "error"
            /\ ~calls[w][Len(calls[w])].ok
            /\ Cardinality({i \in 1..Len(calls[w]) : ~calls[w][i].ok}) = 1

\* the diarization call failed after progress had been reported
C7_Witness ==
    \E w \in Workers :
        /\ pc[w] = "done"
        /\ calls[w][Len(calls[w])] = Raised("diarize")
        /\ Len(emitted[w]) > 1

AlignSkipped == Progress(75, "Alignement ignore")
Notified(w, ev) == \E i \in 1..Len(emitted[w]) : emitted[w][i] = ev
\* the positions of run after the alignment branch
PastAlignment ==
    {"chk150", "emit80", "DiarizationPipeline", "diarize", "assign_word_speakers",
     "emit95skip", "emit98", "del_model", "emit_finished"}

\* C8: a worker whose settings have align = false never calls
\* load_align_model or align, and it does not get past the alignment branch
\* of run (in particular it does not finish) without having emitted the
\* progress signal (75, "Alignement ignore").
C8_AlignSkipped ==
    \A w \in Workers :
        (Live(w) /\ ~settings[w].align) =>
            /\ ~Called(w, "load_align_model")
            /\ ~Called(w, "align")
            /\ ~Called(w, "release_align_model")
            /\ (pc[w] \in PastAlignment \/ NFinished(w) > 0) => Notified(w, AlignSkipped)

\* a run without alignment that finished
C8_Witness ==
    \E w \in Workers :
        /\ ~settings[w].align
        /\ pc[w] = "done"
        /\ NFinished(w) = 1
        /\ Notified(w, AlignSkipped)

WarningOpen ==
    dialogs # <<>> /\ dialogs[Len(dialogs)].kind = "warning"

\* C9: a start request with diarization checked and an empty token field
\* is rejected: no step creates a worker whose settings have diarize without
\* a token, and the step that shows the warning creates and starts no
\* worker, posts no event and leaves the widgets, the file, the worker
\* reference and the held result unchanged.
C9_RejectedWithoutToken ==
    [][/\ \A w \in Workers :
             (pc[w] = "none" /\ pc'[w] # "none")
                => (settings'[w].diarize => settings'[w].hf_token)
       /\ (Len(dialogs') > Len(dialogs) /\ dialogs'[Len(dialogs')].kind = "warning")
             => UNCHANGED <<pc, settings, connected, is_cancelled, emitted, calls,
                            cancelAt, queue, delivered, current_file, worker,
                            result, ui, mainpc>>]_vars

\* the warning is shown, no worker exists and the buttons are as before
C9_Witness ==
    /\ WarningOpen
    /\ \A w \in Workers : pc[w] = "none"
    /\ worker = NoWorker
    /\ queue = <<>>
    /\ ui.transcribe_enabled /\ ui.transcribe_visible
    /\ ~ui.cancel_visible /\ ~ui.progress_visible

\* C10 (as claimed): a worker whose settings have diarize = true and no
\* token never emits `finished`, and when its run returns without having
\* been cancelled it has emitted `error`.
C10_FailsFastWithoutToken ==
    \A w \in Workers :
        (Live(w) /\ settings[w].diarize /\ ~settings[w].hf_token) =>
            /\ NFinished(w) = 0
            /\ (Exited(w) /\ ~is_cancelled[w]) => NError(w) = 1

\* the percent values of the progress signals worker w has emitted, in order
Percents(w) ==
    LET Prog == {i \in 1..Len(emitted[w]) : IsProgress(emitted[w][i])}
    IN  [i \in Prog |-> emitted[w][i].pct]

\* C11: the percent values of the progress signals of one worker are in
\* 0..100 and never decrease, for every combination of align, diarize and
\* token; and a `finished` signal is immediately preceded by the progress
\* signal with percent 100.
C11_ProgressMonotone ==
    \A w \in Workers :
        /\ \A i \in DOMAIN Percents(w) : Percents(w)[i] \in 0..100
        /\ \A i, j \in DOMAIN Percents(w) : i <= j => Percents(w)[i] <= Percents(w)[j]
        /\ \A k \in 1..Len(emitted[w]) :
              IsFinished(emitted[w][k]) => (k > 1 /\ IsFinal(emitted[w][k - 1]))

\* a run with alignment and diarization that emitted all thirteen progress
\* signals and then `finished`
C11_Witness ==
    \E w \in Workers :
        /\ settings[w].align /\ settings[w].diarize /\ settings[w].hf_token
        /\ NFinished(w) = 1
        /\ Len(emitted[w]) = 14
        /\ pc[w] = "done"

\* the events of worker w that are posted and not yet handled, in queue order
RECURSIVE PendingOf(_, _)
PendingOf(q, w) ==
    IF q = <<>> THEN <<>>
    ELSE IF Head(q).w = w THEN <<Head(q).ev>> \o PendingOf(Tail(q), w)
    ELSE PendingOf(Tail(q), w)

\* the last n elements of the sequence s
LastN(s, n) == SubSeq(s, Len(s) - n + 1, Len(s))

\* C12: the control thread handles the events at the head of its queue, so
\* the order of handling is the order of the queue.  For each job, the
\* events not yet handled are the last ones the worker emitted, in the order
\* of emission (those handled are the ones emitted before them); a terminal
\* event is the last event of its job in the queue; and once a terminal slot
\* has run for a job, no event of that job is left to be handled.
C12_HandledInEmissionOrder ==
    \A w \in Workers :
        LET pend == PendingOf(queue, w) IN
        /\ (Live(w) /\ connected[w]) =>
              /\ Len(pend) <= Len(emitted[w])
              /\ pend = LastN(emitted[w], Len(pend))
        /\ \A i \in 1..Len(pend) : i < Len(pend) => IsProgress(pend[i])
        /\ delivered[w] # "none" => pend = <<>>

\* a job whose progress events and then its completion were all handled
C12_Witness ==
    \E w \in Workers :
        /\ delivered[w] = "complete"
        /\ Live(w)
        /\ Len(emitted[w]) >= 10
        /\ PendingOf(queue, w) = <<>>
        /\ ui.progress_bar = 100

\* C13: cancel_transcription sets the flag of self.worker and blocks until
\* that worker's thread has stopped.  A worker whose flag is set and whose
\* thread still runs is self.worker, the control thread is inside wait(),
\* and the UI has not been reset (the cancel button is still shown, the
\* transcribe button hidden); so whenever the control thread is back in its
\* event loop, every cancelled worker has stopped running.
C13_CancelBlocksUntilExit ==
    \A w \in Workers :
        /\ (is_cancelled[w] /\ Running(w)) =>
              /\ mainpc = "wait"
              /\ worker = w
              /\ ui.cancel_visible /\ ~ui.transcribe_visible
        /\ (is_cancelled[w] /\ mainpc = "idle") => ~Running(w)
        /\ (mainpc = "wait" /\ worker # NoWorker) => is_cancelled[worker]

\* cancel_transcription has returned for a worker that was cancelled while
\* it was working, and the UI is reset
C13_Witness ==
    \E w \in Workers :
        /\ cancelAt[w] = "midway"
        /\ pc[w] = "done"
        /\ mainpc = "idle"
        /\ ~ui.cancel_visible /\ ui.transcribe_visible /\ ui.transcribe_enabled
        /\ ui.status = "Transcription annulee"

\* C14 (as claimed): a job on which the user has requested cancellation never
\* has on_transcription_error run for it.
C14_CancelledNeverErrors ==
    \A w \in Workers :
        cancelAt[w] # "never" => delivered[w] # "error"

IsExportDialog(d) == d.kind \in {"save", "information", "export_error"}

\* a step of export_result: one of its boxes opens, closes or is replaced
ExportStep ==
    /\ dialogs' # dialogs
    /\ IF Len(dialogs') > Len(dialogs)
       THEN IsExportDialog(dialogs'[Len(dialogs')])
       ELSE IsExportDialog(dialogs[Len(dialogs)])

\* C15: no step of export_result, whether the export succeeds, fails or is
\* dismissed, changes the held result or the state of the jobs (the workers,
\* the posted events, the file, the worker reference, the widgets other
\* than the status bar); a failed export opens an error box and leaves the
\* status bar alone; and whenever a result is held the export buttons are
\* enabled, so a further export can be requested.
C15_ExportLeavesResult ==
    /\ [][ExportStep =>
            /\ UNCHANGED <<result, current_file, worker, mainpc, delivered, queue>>
            /\ UNCHANGED wvars
            /\ ui' = [ui EXCEPT !.status = ui'.status]
            /\ (Len(dialogs') = Len(dialogs) /\ dialogs'[Len(dialogs')].kind = "export_error")
                  => ui' = ui]_vars
    /\ [](result # NoResult => ui.export_enabled)

\* an export has failed, its error box is open, and the result of the
\* completed job is still held and exportable
C15_Witness ==
    /\ dialogs # <<>>
    /\ dialogs[Len(dialogs)].kind = "export_error"
    /\ result # NoResult
    /\ delivered[result] = "complete"
    /\ ui.export_enabled

\* the timestamp the claim describes for a time of ms whole milliseconds
ClaimedStamp(ms) ==
    LET t == ms \div 1000
    IN  Pad2(t \div 3600) \o ":" \o Pad2((t % 3600) \div 60) \o ":" \o Pad2(t % 60)
        \o "," \o Pad3(ms - 1000 * t)

\* the block the claim describes for the i-th segment
ClaimedBlock(segs, i) ==
    ToString(i) \o "\n" \o ClaimedStamp(segs[i].start) \o " --> "
    \o ClaimedStamp(segs[i].end) \o "\n" \o Str(Strip(segs[i].text)) \o "\n\n"

RECURSIVE ClaimedSrt(_, _)
ClaimedSrt(segs, n) ==
    IF n = 0 THEN "" ELSE ClaimedSrt(segs, n - 1) \o ClaimedBlock(segs, n)

\* C16 (as claimed): the subtitle export writes, for the segments in order,
\* the 1-based index, the two timestamps HH:MM:SS,mmm with mmm the
\* milliseconds of the time within its second, the trimmed text and an
\* empty line; an empty segment list gives an empty file.
C16_SrtAsClaimed ==
    output # "none" => output = ClaimedSrt(segments, Len(segments))

\* C17: format_duration renders a duration of m whole minutes and r further
\* whole seconds as "{m}m {r}s" when m > 0 and as "{r}s" when m = 0;
\* 125.7 gives "2m 5s" and 45.2 gives "45s".
C17_DurationFormat ==
    output # "none" =>
        LET m == CHOOSE n \in 0..(seconds \div 60000) + 1 :
                     60000 * n <= seconds /\ seconds < 60000 * (n + 1)
            r == CHOOSE n \in 0..59 :
                     /\ 60000 * m + 1000 * n <= seconds
                     /\ seconds < 60000 * m + 1000 * (n + 1)
        IN  /\ m > 0 => output = ToString(m) \o "m " \o ToString(r) \o "s"
            /\ m = 0 => output = ToString(r) \o "s"
            /\ seconds = 125700 => output = "2m 5s"
            /\ seconds = 45200 => output = "45s"

\* a duration over one minute and its rendering
C17_Witness ==
    /\ seconds = 125700
    /\ output = "2m 5s"

\* C18 (as claimed): the call of start_transcription that is refused because
\* no file is selected creates no worker, posts no event, leaves the
\* widgets, the worker reference and the result unchanged, and opens a
\* message box that tells the user why.
C18_NoFileRejectedWithMessage ==
    [][(~early_return /\ early_return') =>
          /\ UNCHANGED <<pc, settings, connected, is_cancelled, emitted, calls,
                         cancelAt, queue, delivered, current_file, worker,
                         result, ui, mainpc>>
          /\ Len(dialogs') = Len(dialogs) + 1
          /\ dialogs'[Len(dialogs')].kind = "warning"]_vars

\* a slot runs: the control thread takes the event at the head of its queue
SlotRuns == queue # <<>> /\ queue' = Tail(queue)

\* C19 (as claimed): once cancel_transcription has been called for a worker,
\* no progress or completion event of that worker is handled (the control
\* thread handles events only in its event loop, that is, after
\* cancel_transcription has returned), so the display state and the result
\* are not rewritten by the cancelled job.
C19_NoEventAfterCancel ==
    [][(SlotRuns /\ Head(queue).ev.kind \in {"progress", "finished"})
          => ~is_cancelled[Head(queue).w]]_vars

\* C20 (as claimed): every event a slot handles was emitted by the worker
\* that self.worker refers to.
C20_OnlyCurrentWorker ==
    [][SlotRuns => Head(queue).w = worker]_vars

\* the order of the external calls and release steps in the text of run
CallOrder ==
    <<"import", "load_model", "load_audio", "transcribe", "load_align_model",
      "align", "release_align_model", "DiarizationPipeline", "diarize",
      "assign_word_speakers", "release_model">>
Rank(name) == CHOOSE i \in 1..Len(CallOrder) : CallOrder[i] = name
\* the call `name` was made by worker w and returned
Done(w, name) == \E i \in 1..Len(calls[w]) : calls[w][i] = Returned(name)

\* C21: the calls of a run follow the fixed order load_model, load_audio,
\* transcribe, load_align_model, align, release of the alignment model,
\* DiarizationPipeline, diarize, assign_word_speakers, release of the main
\* model: each is made at most once and none after a later one.  The
\* alignment calls are made only if align is set, the diarization calls only
\* if diarize is set and a token is present, the alignment model is released
\* right after align returns and so before any diarization call, and
\* `finished` is emitted only after every call the settings ask for has
\* returned and the main model has been released.
C21_CallOrder ==
    \A w \in Workers :
        Live(w) =>
            /\ \A i, j \in 1..Len(calls[w]) :
                  i < j => Rank(calls[w][i].name) < Rank(calls[w][j].name)
            /\ \A i \in 1..Len(calls[w]) :
                  /\ calls[w][i].name \in {"load_align_model", "align", "release_align_model"}
                        => settings[w].align
                  /\ calls[w][i].name \in {"DiarizationPipeline", "diarize", "assign_word_speakers"}
                        => (settings[w].diarize /\ settings[w].hf_token)
                  /\ (calls[w][i] = Returned("align") /\ pc[w] # "align")
                        => (i < Len(calls[w]) /\ calls[w][i + 1].name = "release_align_model")
            /\ (Called(w, "DiarizationPipeline") /\ settings[w].align)
                  => Done(w, "release_align_model")
            /\ NFinished(w) = 1 =>
                  /\ calls[w][Len(calls[w])] = Returned("release_model")
                  /\ Done(w, "load_model") /\ Done(w, "load_audio") /\ Done(w, "transcribe")
                  /\ settings[w].align => (Done(w, "load_align_model") /\ Done(w, "align"))
                  /\ (settings[w].diarize /\ settings[w].hf_token) =>
                        /\ Done(w, "DiarizationPipeline")
                        /\ Done(w, "diarize")
                        /\ Done(w, "assign_word_speakers")

\* a run with alignment and diarization that made all eleven steps and finished
C21_Witness ==
    \E w \in Workers :
        /\ settings[w].align /\ settings[w].diarize /\ settings[w].hf_token
        /\ Len(calls[w]) = Len(CallOrder)
        /\ NFinished(w) = 1

\* the positions of run after the diarization branch
PastDiarization == {"del_model", "emit_finished"}

\* C22: every worker that start_transcription has created holds settings in
\* which diarize implies a token, so such a worker never takes the path of
\* run on which diarization is requested and silently left out: it is never
\* about to emit 98 with diarize set, and when it has got past the
\* diarization branch with diarize set, the diarization calls were made.
C22_TokenWithDiarize ==
    \A w \in Workers :
        (Live(w) /\ connected[w]) =>
            /\ settings[w].diarize => settings[w].hf_token
            /\ pc[w] = "emit98" => ~settings[w].diarize
            /\ (settings[w].diarize /\ (pc[w] \in PastDiarization \/ NFinished(w) > 0))
                  => Done(w, "assign_word_speakers")

\* a job started from the window with diarization checked and a token, which
\* ran the diarization and finished
C22_Witness ==
    \E w \in Workers :
        /\ connected[w]
        /\ settings[w].diarize /\ settings[w].hf_token
        /\ Done(w, "diarize")
        /\ NFinished(w) = 1

\* the positions of the five tests of the cancellation flag
Checkpoints == {"chk71", "chk83", "chk95", "chk117", "chk150"}

\* C23: every worker thread that runs eventually stops, every call of
\* cancel_transcription eventually returns, and a worker whose flag is set
\* does not go past a checkpoint: at the first one it reaches it returns,
\* making no further call and emitting nothing, so after the request it makes
\* at most the calls between its position and that checkpoint.
C23_Terminates ==
    /\ \A w \in Workers : Running(w) ~> ~Running(w)
    /\ (mainpc = "wait") ~> (mainpc = "idle")
    /\ [][\A w \in Workers :
            (is_cancelled[w] /\ pc[w] \in Checkpoints /\ pc'[w] # pc[w])
               => /\ pc'[w] = "exit"
                  /\ calls'[w] = calls[w]
                  /\ emitted'[w] = emitted[w]]_vars

\* a job cancelled while model.transcribe was in flight: the call returned,
\* the worker stopped at the next checkpoint and cancel_transcription returned
C23_Witness ==
    \E w \in Workers :
        /\ connected[w]
        /\ cancelAt[w] = "midway"
        /\ calls[w] # <<>>
        /\ calls[w][Len(calls[w])] = Returned("transcribe")
        /\ pc[w] = "done"
        /\ NFinished(w) + NError(w) = 0
        /\ mainpc = "idle"

\* on_transcription_complete runs
CompletionHandled == SlotRuns /\ Head(queue).ev.kind = "finished"

\* C24: self.result and the enabled state of the export buttons change only
\* in on_transcription_complete, which stores the result of the job whose
\* completion it handles and enables the buttons; starting a job, cancelling
\* it and handling an error leave both alone.  So whenever export is enabled
\* a result is held, and it is the result of a job whose completion was
\* handled, the most recent one.
C24_ResultOnlyOnCompletion ==
    /\ [](ui.export_enabled => (result # NoResult /\ delivered[result] = "complete"))
    /\ [][/\ (result' # result \/ ui'.export_enabled # ui.export_enabled)
                => CompletionHandled
          /\ CompletionHandled
                => (result' = Head(queue).w /\ ui'.export_enabled)]_vars

\* the result of job 1 is held and exportable while job 2, started later, runs
C24_Witness ==
    \E w \in Workers :
        /\ result # NoResult
        /\ delivered[result] = "complete"
        /\ ui.export_enabled
        /\ worker = w
        /\ w # result
        /\ Running(w)
        /\ Len(emitted[w]) > 0

=============================================================================
